---- MODULE Spec2Model ----
(***************************************************************************)
(* DISE AI Analyzer (src/app.py): a Streamlit script.  Every user          *)
(* interaction re-runs the script from the top: the sidebar resolves the   *)
(* API key, the uploader yields the file, and a click on the analyze       *)
(* button runs configure -> upload_to_gemini -> analyze_video -> render    *)
(* inside one try/except.  The remote service (google.generativeai) is the *)
(* environment: each of its calls returns or raises.                       *)
(***************************************************************************)
EXTENDS Integers, Sequences, FiniteSets, TLC

VARIABLES
    secrets,          \* st.secrets: unavailable, without the key, or holding it
    text_input,       \* value of the sidebar's password widget
    uploaded_file,    \* TRUE when the uploader holds a file
    api_key,          \* module-level api_key after the sidebar block
    sidebar,          \* status elements the sidebar rendered in this run
    clicked,          \* TRUE when this script run was triggered by the button
    pc,               \* position of the script run
    sched,            \* the remote's future: when the handle turns terminal
    file,             \* upload_to_gemini's local `file`: last observed state
    percent_complete, \* loop variable of the poll loop
    my_bar,           \* the progress indicator
    gemini_file,      \* value returned by upload_to_gemini
    gen_arg,          \* state of the handle passed to generate_content
    result,           \* value returned by analyze_video
    rstep,            \* index of the next rendering statement
    exc,              \* the exception in flight / caught
    calls,            \* genai calls of this run, run-length encoded
    nSleeps,          \* time.sleep calls of this run
    ui                \* elements rendered in the result column in this run

vars == <<secrets, text_input, uploaded_file, api_key, sidebar, clicked, pc,
          sched, file, percent_complete, my_bar, gemini_file, gen_arg, result,
          rstep, exc, calls, nSleeps, ui>>

----------------------------------------------------------------------------
(* Bounds and constants *)

\* range(100) of the poll loop
PollLimit == 100

\* how many positions past the poll window the remote's schedule may name
MaxBeyond == 1

Horizon == PollLimit + MaxBeyond

----------------------------------------------------------------------------
(* Python values *)

PyNone == [t |-> "None", v |-> ""]
PyStr(s) == [t |-> "str", v |-> s]

\* Python truthiness of None / str, as used by `if not api_key`
Truthy(x) == x.t = "str" /\ x.v # ""

KeyStrings == {"", "KEY"}

Secrets == {[st |-> "unavailable", v |-> ""], [st |-> "nokey", v |-> ""]}
             \cup {[st |-> "key", v |-> s] : s \in KeyStrings}

----------------------------------------------------------------------------
(* The remote file handle *)

NonTerminal == {"PROCESSING", "STATE_UNSPECIFIED"}
Terminal == {"ACTIVE", "FAILED"}
NoFile == "none"

Schedules == [at : 1..Horizon, outcome : Terminal]
NoSched == [at |-> 0, outcome |-> "ACTIVE"]

\* States genai.get_file may report at the i-th poll under schedule s
Observable(s, i) == IF i < s.at THEN NonTerminal ELSE {s.outcome}

RemoteErrors == {"network error", "API key not valid"}

NoExc == [type |-> "none", msg |-> ""]
Raised(type, msg) == [type |-> type, msg |-> msg]

\* str(KeyError(k)) is repr(k)
KeyErrorText(k) == "'" \o k \o "'"

ProcessingFailedText == "Falha no processamento do Google."

----------------------------------------------------------------------------
(* Progress indicator *)

NoBar == [st |-> "none", value |-> 0, text |-> ""]
EmptyBar == [st |-> "empty", value |-> 0, text |-> ""]
Bar(v, txt) == [st |-> "shown", value |-> v, text |-> txt]

----------------------------------------------------------------------------
(* Logs *)

UiEl(el, text) == [el |-> el, text |-> text]

\* Append call c to the run-length encoded call log
Log(cs, c) ==
    IF Len(cs) > 0 /\ cs[Len(cs)].c = c
    THEN [cs EXCEPT ![Len(cs)].n = @ + 1]
    ELSE Append(cs, [c |-> c, n |-> 1])

\* Number of calls named c in the log
RECURSIVE Count(_, _)
Count(cs, c) ==
    IF cs = <<>> THEN 0
    ELSE (IF Head(cs).c = c THEN Head(cs).n ELSE 0) + Count(Tail(cs), c)

----------------------------------------------------------------------------
(* Sidebar: API key resolution, lines 16-37 *)

\* try: if "GOOGLE_API_KEY" in st.secrets: api_key = st.secrets[...]
SecretsLookup(sec) ==
    IF sec.st = "key"
    THEN [key |-> PyStr(sec.v), detected |-> TRUE]
    ELSE [key |-> PyNone, detected |-> FALSE]

ResolveApiKey(sec, input) ==
    LET k == SecretsLookup(sec).key
    IN  IF ~Truthy(k) THEN PyStr(input) ELSE k

SidebarElements(sec, input) ==
    LET l == SecretsLookup(sec)
    IN  (IF l.detected THEN <<"success">> ELSE <<>>)
        \o (IF ~Truthy(l.key) THEN <<"text_input">> ELSE <<>>)
        \o (IF ~Truthy(l.key) /\ ~Truthy(PyStr(input)) THEN <<"warning">> ELSE <<>>)
        \o <<"caption">>

----------------------------------------------------------------------------
(* Parsed response and the rendering statements, lines 143-168 *)

ReportKeys == {"obstrucao_percentual", "nivel_confianca", "estrutura_colapsada",
               "padrao_colapso", "analise_clinica"}

NoKey == "-"
NoResult == [kind |-> "none", keys |-> {}]
\* json.loads results: an object with some keys, or a non-object JSON value
Results == {[kind |-> "dict", keys |-> K] : K \in SUBSET ReportKeys}
             \cup {[kind |-> "other", keys |-> {}]}

Stmt(el, key) == [el |-> el, key |-> key]

\* Faulty variant: the confidence caption is rendered right after the banner
RenderPlan_ConfidenceFirst ==
    << Stmt("success", NoKey),
       Stmt("caption_confianca", "nivel_confianca"),
       Stmt("gauge", "obstrucao_percentual"),
       Stmt("columns", NoKey),
       Stmt("card_estrutura", "estrutura_colapsada"),
       Stmt("card_padrao", "padrao_colapso"),
       Stmt("spacer", NoKey),
       Stmt("expander", NoKey),
       Stmt("laudo", "analise_clinica") >>

\* The statements of the try block after analyze_video, in program order,
\* each with the report field it reads (NoKey: none)
RenderPlan ==
    << Stmt("success", NoKey),
       Stmt("gauge", "obstrucao_percentual"),
       Stmt("columns", NoKey),
       Stmt("card_estrutura", "estrutura_colapsada"),
       Stmt("card_padrao", "padrao_colapso"),
       Stmt("spacer", NoKey),
       Stmt("expander", NoKey),
       Stmt("laudo", "analise_clinica"),
       Stmt("caption_confianca", "nivel_confianca") >>

\* Faulty variant: a missing key yields a default, as result.get(key) would
Subscript_Default(res, key) ==
    IF res.kind # "dict" THEN Raised("TypeError", "not subscriptable") ELSE NoExc

\* result[key]: the exception it raises, NoExc when it returns
Subscript(res, key) ==
    IF res.kind # "dict" THEN Raised("TypeError", "not subscriptable")
    ELSE IF key \notin res.keys THEN Raised("KeyError", KeyErrorText(key))
    ELSE NoExc

----------------------------------------------------------------------------
(* One script run: sidebar, uploader, button; lines 16-37 and 121-137 *)

pipeline == <<sched, file, percent_complete, my_bar, gemini_file, gen_arg,
              result, rstep, exc, nSleeps>>

inputs == <<secrets, text_input, uploaded_file, api_key, sidebar, clicked>>

\* `if not api_key` of the button handler, line 135: TRUE when the try block runs
\* Faulty variant: the handler does not test the key
ButtonProceeds_Always(key) == TRUE

ButtonProceeds(key) == Truthy(key)

MissingKeyText == "Configure a API Key na barra lateral ou nos Secrets."

\* The script runs top to bottom with the widget values input/up and the
\* button value btn; the locals of the previous run are gone.
Rerun(input, up, btn) ==
    /\ text_input' = input
    /\ uploaded_file' = up
    /\ api_key' = ResolveApiKey(secrets, input)
    /\ sidebar' = SidebarElements(secrets, input)
    /\ clicked' = (btn /\ up)
    /\ sched' = NoSched
    /\ file' = NoFile
    /\ percent_complete' = 0
    /\ my_bar' = NoBar
    /\ gemini_file' = NoFile
    /\ gen_arg' = NoFile
    /\ result' = NoResult
    /\ rstep' = 1
    /\ exc' = NoExc
    /\ calls' = <<>>
    /\ nSleeps' = 0
    /\ IF btn /\ up
       THEN IF ButtonProceeds(api_key')
            THEN ui' = <<>> /\ pc' = "configure"
            ELSE ui' = <<UiEl("error", MissingKeyText)>> /\ pc' = "idle"
       ELSE ui' = <<>> /\ pc' = "idle"
    /\ UNCHANGED secrets

\* The operator types into (or clears) the sidebar's password field
TypeKey ==
    /\ pc = "idle"
    /\ ~Truthy(SecretsLookup(secrets).key)
    /\ \E v \in KeyStrings : v # text_input /\ Rerun(v, uploaded_file, FALSE)

\* The operator puts a file into the uploader, or removes it
ChooseFile ==
    /\ pc = "idle"
    /\ Rerun(text_input, ~uploaded_file, FALSE)

\* The operator clicks the analyze button (rendered only with a file)
ClickAnalyze ==
    /\ pc = "idle"
    /\ uploaded_file
    /\ Rerun(text_input, uploaded_file, TRUE)

----------------------------------------------------------------------------
(* The try block, lines 138-168 *)

\* raise inside the try block: control goes to the except clause
Raise(e) == exc' = e /\ pc' = "except"

\* genai.configure(api_key=api_key), line 139
Configure ==
    /\ pc = "configure"
    /\ calls' = Log(calls, "configure")
    /\ \/ pc' = "upload_file" /\ UNCHANGED exc
       \/ \E m \in RemoteErrors : Raise(Raised("Exception", m))
    /\ UNCHANGED <<inputs, sched, file, percent_complete, my_bar, gemini_file,
                   gen_arg, result, rstep, nSleeps, ui>>

\* States of the handle genai.upload_file returns under schedule s
InitialStates(s) ==
    NonTerminal \cup (IF s.at = 1 /\ s.outcome = "ACTIVE" THEN {"ACTIVE"} ELSE {})

\* upload_to_gemini up to the loop: genai.upload_file, st.progress(0); lines 42-44
UploadFile ==
    /\ pc = "upload_file"
    /\ calls' = Log(calls, "upload_file")
    /\ \/ /\ \E s \in Schedules : \E st \in InitialStates(s) :
                sched' = s /\ file' = st
          /\ my_bar' = Bar(0, "Enviando para a IA...")
          /\ percent_complete' = 0
          /\ pc' = "sleep"
          /\ UNCHANGED exc
       \/ /\ \E m \in RemoteErrors : Raise(Raised("Exception", m))
          /\ UNCHANGED <<sched, file, my_bar, percent_complete>>
    /\ UNCHANGED <<inputs, gemini_file, gen_arg, result, rstep, nSleeps, ui>>

\* time.sleep(0.2), line 47
Sleep ==
    /\ pc = "sleep"
    /\ nSleeps' = nSleeps + 1
    /\ pc' = "get_file"
    /\ UNCHANGED <<inputs, sched, file, percent_complete, my_bar, gemini_file,
                   gen_arg, result, rstep, exc, calls, ui>>

\* Faulty variant: the ACTIVE branch is missing
PollVerdict_IgnoreActive(st) ==
    IF st = "FAILED" THEN "raise" ELSE "continue"

\* Faulty variant: the FAILED branch is missing
PollVerdict_IgnoreFailed(st) ==
    IF st = "ACTIVE" THEN "return" ELSE "continue"

\* What the loop body does with the observed state, lines 49-55
PollVerdict(st) ==
    IF st = "ACTIVE" THEN "return"
    ELSE IF st = "FAILED" THEN "raise"
    ELSE "continue"

\* Faulty variant: range(99)
MoreIterations_OneShort(i) == i + 1 < PollLimit - 1

\* Faulty variant: range(101)
MoreIterations_OneMore(i) == i + 1 < PollLimit + 1

\* range(100), line 46: after iteration i (0-based) another one follows
MoreIterations(i) == i + 1 < PollLimit

\* The progress indicator after the loop body saw st in iteration i;
\* lines 50, 53, 55
BarAfterPoll(st, i) ==
    IF PollVerdict(st) = "continue"
    THEN Bar(i + 1, "Processando... " \o st)
    ELSE EmptyBar

\* One iteration's genai.get_file and what follows it, lines 48-57
GetFile ==
    /\ pc = "get_file"
    /\ calls' = Log(calls, "get_file")
    /\ \/ \E st \in Observable(sched, percent_complete + 1) :
            /\ file' = st
            /\ my_bar' = BarAfterPoll(st, percent_complete)
            /\ CASE PollVerdict(st) = "return" ->
                      /\ gemini_file' = st
                      /\ pc' = "generate_content"
                      /\ UNCHANGED <<exc, percent_complete>>
                 [] PollVerdict(st) = "raise" ->
                      /\ Raise(Raised("ValueError", ProcessingFailedText))
                      /\ UNCHANGED <<gemini_file, percent_complete>>
                 [] OTHER ->
                      IF MoreIterations(percent_complete)
                      THEN /\ percent_complete' = percent_complete + 1
                           /\ pc' = "sleep"
                           /\ UNCHANGED <<gemini_file, exc>>
                      ELSE \* the loop is exhausted: `return file`, line 57
                           /\ gemini_file' = st
                           /\ pc' = "generate_content"
                           /\ UNCHANGED <<exc, percent_complete>>
       \/ /\ \E m \in RemoteErrors : Raise(Raised("Exception", m))
          /\ UNCHANGED <<file, my_bar, gemini_file, percent_complete>>
    /\ UNCHANGED <<inputs, sched, gen_arg, result, rstep, nSleeps, ui>>

\* analyze_video: model.generate_content and json.loads, lines 59-87
GenerateContent ==
    /\ pc = "generate_content"
    /\ calls' = Log(calls, "generate_content")
    /\ gen_arg' = gemini_file
    /\ \/ \E r \in Results : result' = r /\ pc' = "render" /\ UNCHANGED exc
       \/ /\ \E m \in RemoteErrors : Raise(Raised("Exception", m))
          /\ UNCHANGED result
       \/ /\ Raise(Raised("JSONDecodeError", "Expecting value"))
          /\ UNCHANGED result
    /\ UNCHANGED <<inputs, sched, file, percent_complete, my_bar, gemini_file,
                   rstep, nSleeps, ui>>

\* The next rendering statement, lines 143-168
RenderStep ==
    /\ pc = "render"
    /\ LET s == RenderPlan[rstep]
           e == IF s.key = NoKey THEN NoExc ELSE Subscript(result, s.key)
       IN  IF e # NoExc
           THEN Raise(e) /\ UNCHANGED <<ui, rstep>>
           ELSE /\ ui' = Append(ui, UiEl(s.el, ""))
                /\ UNCHANGED exc
                /\ IF rstep < Len(RenderPlan)
                   THEN rstep' = rstep + 1 /\ pc' = "render"
                   ELSE rstep' = rstep /\ pc' = "idle"
    /\ UNCHANGED <<inputs, sched, file, percent_complete, my_bar, gemini_file,
                   gen_arg, result, calls, nSleeps>>

\* Faulty variant: the handler starts the try block again
Except_Retry ==
    /\ pc = "except"
    /\ ui' = Append(ui, UiEl("error", "Erro: " \o exc.msg))
    /\ pc' = "configure"
    /\ UNCHANGED <<inputs, pipeline, calls>>

\* except Exception as e: st.error(f"Erro: {e}"), lines 170-171
Except ==
    /\ pc = "except"
    /\ ui' = Append(ui, UiEl("error", "Erro: " \o exc.msg))
    /\ pc' = "idle"
    /\ UNCHANGED <<inputs, pipeline, calls>>

----------------------------------------------------------------------------
(* Specifications *)

Init ==
    /\ secrets \in Secrets
    /\ text_input = ""
    /\ uploaded_file = FALSE
    /\ api_key = ResolveApiKey(secrets, "")
    /\ sidebar = SidebarElements(secrets, "")
    /\ clicked = FALSE
    /\ pc = "idle"
    /\ sched = NoSched
    /\ file = NoFile
    /\ percent_complete = 0
    /\ my_bar = NoBar
    /\ gemini_file = NoFile
    /\ gen_arg = NoFile
    /\ result = NoResult
    /\ rstep = 1
    /\ exc = NoExc
    /\ calls = <<>>
    /\ nSleeps = 0
    /\ ui = <<>>

\* A click's run is under way
Running == pc # "idle"

Step ==
    \/ Configure
    \/ UploadFile
    \/ Sleep
    \/ GetFile
    \/ GenerateContent
    \/ RenderStep
    \/ Except

Next ==
    \/ TypeKey
    \/ ChooseFile
    \/ ClickAnalyze
    \/ Step

Spec == Init /\ [][Next]_vars

\* The script is single-threaded and synchronous: once a click has started
\* the try block, its next statement runs (each remote call returns or raises).
FairSpec == Spec /\ WF_vars(Step)

----------------------------------------------------------------------------
(* Vocabulary of the properties *)

\* The run a click started has finished
Done == clicked /\ pc = "idle"

\* Some source holds a non-empty credential string
HasCredential == (secrets.st = "key" /\ secrets.v # "") \/ text_input # ""

Polls == Count(calls, "get_file")

IsError(e) == e.el = "error"
ErrorBanners == SelectSeq(ui, IsError)
ErrorBanner(msg) == UiEl("error", "Erro: " \o msg)

\* upload_to_gemini has been left, by return or by an exception
UploadExited == my_bar.st # "none" /\ pc \in {"generate_content", "render", "except", "idle"}

----------------------------------------------------------------------------
(* C1 *)

\* C1: a click proceeds into the try block (configure is the next call or has
\* been made) exactly when some credential source holds a non-empty string;
\* otherwise the run ends at once with the missing-key message and no genai call.
C1_CredentialGate ==
    /\ ~clicked => pc = "idle" /\ calls = <<>>
    /\ clicked /\ HasCredential =>
          /\ Truthy(api_key)
          /\ pc = "configure" \/ Count(calls, "configure") = 1
    /\ clicked /\ ~HasCredential =>
          /\ pc = "idle"
          /\ calls = <<>>
          /\ ui = <<UiEl("error", MissingKeyText)>>

C1_Witness_BlockedClick ==
    /\ clicked /\ ~HasCredential
    /\ secrets.st = "key"
    /\ ui = <<UiEl("error", MissingKeyText)>>

----------------------------------------------------------------------------
(* C2 *)

\* C2: when the handle's first terminal state is ACTIVE at poll k <= 100, the
\* k-th poll ends the loop: unless that poll itself raised, upload_to_gemini
\* has returned the ACTIVE handle, and the number of polls stays k ever after.
C2_ActiveAtK ==
    (sched.at \in 1..PollLimit /\ sched.outcome = "ACTIVE") =>
        /\ Polls <= sched.at
        /\ gemini_file # NoFile => gemini_file = "ACTIVE" /\ Polls = sched.at
        /\ (Polls = sched.at /\ exc = NoExc) => gemini_file = "ACTIVE"

\* PROCESSING, PROCESSING, ACTIVE: returned after exactly 3 polls, click finished
C2_Witness_PPA ==
    /\ sched.at = 3 /\ sched.outcome = "ACTIVE"
    /\ gemini_file = "ACTIVE" /\ Polls = 3 /\ nSleeps = 3
    /\ Done

----------------------------------------------------------------------------
(* C3 *)

\* C3: when the handle's first terminal state is FAILED at poll k <= 100, the
\* k-th poll is the last one; having observed FAILED the function raises the
\* processing failure, generate_content is never called, and the finished
\* click shows that failure as its error banner.
C3_FailedAtK ==
    /\ (sched.at \in 1..PollLimit /\ sched.outcome = "FAILED") =>
          /\ Polls <= sched.at
          /\ gemini_file = NoFile
          /\ Count(calls, "generate_content") = 0
          /\ Polls = sched.at => file = "FAILED" \/ exc.type = "Exception"
    /\ file = "FAILED" =>
          /\ Polls = sched.at
          /\ exc = Raised("ValueError", ProcessingFailedText)
          /\ pc \in {"except", "idle"}
          /\ pc = "idle" => ui = <<ErrorBanner(ProcessingFailedText)>>

C3_Witness_FailedBanner ==
    /\ sched.at = 2 /\ sched.outcome = "FAILED"
    /\ file = "FAILED" /\ Polls = 2
    /\ Done /\ ui = <<ErrorBanner(ProcessingFailedText)>>

----------------------------------------------------------------------------
(* C4 *)

\* C4: when none of the 100 polls observes ACTIVE or FAILED (and none raises),
\* upload_to_gemini returns after exactly 100 polls with no exception, the
\* returned handle is the last observed, non-terminal one, and
\* generate_content is called with it.
C4_Exhaustion ==
    sched.at > PollLimit =>
        /\ Polls <= PollLimit
        /\ (Polls = PollLimit /\ exc = NoExc) => gemini_file # NoFile
        /\ gemini_file # NoFile =>
              /\ Polls = PollLimit
              /\ gemini_file \in NonTerminal /\ gemini_file = file
              /\ pc = "generate_content" => exc = NoExc
              /\ pc # "generate_content" =>
                    Count(calls, "generate_content") = 1 /\ gen_arg = gemini_file

C4_Witness_NotReadyAnalyzed ==
    /\ sched.at > PollLimit
    /\ Polls = PollLimit
    /\ gen_arg \in NonTerminal
    /\ Done /\ exc = NoExc /\ result.keys = ReportKeys

----------------------------------------------------------------------------
(* C5 *)

\* C5: whenever analyze_video is invoked, the handle passed to it was last
\* observed ACTIVE.
C5_AnalyzeOnlyActive ==
    /\ pc = "generate_content" => gemini_file = "ACTIVE"
    /\ gen_arg # NoFile => gen_arg = "ACTIVE"

----------------------------------------------------------------------------
(* C6 *)

\* C6: once upload_to_gemini has been left after creating the progress
\* indicator, the indicator has been cleared.
C6_BarClearedOnExit == UploadExited => my_bar.st = "empty"

----------------------------------------------------------------------------
(* C7 *)

LacksConfidence ==
    result.kind = "dict" /\ result.keys = ReportKeys \ {"nivel_confianca"}

\* C7: a parsed response lacking only nivel_confianca never gets a confidence
\* line; the click ends with the KeyError for that key as its error banner.
C7_MissingConfidence ==
    LacksConfidence =>
        /\ \A i \in 1..Len(ui) : ui[i].el # "caption_confianca"
        /\ pc \in {"render", "except", "idle"}
        /\ pc # "render" =>
              exc = Raised("KeyError", KeyErrorText("nivel_confianca"))
        /\ pc = "idle" =>
              /\ ui[Len(ui)] = ErrorBanner("'nivel_confianca'")
              /\ Len(ErrorBanners) = 1

C7_Witness_KeyErrorBanner ==
    /\ LacksConfidence /\ Done
    /\ ui[Len(ui)] = ErrorBanner("'nivel_confianca'")

----------------------------------------------------------------------------
(* C8 *)

\* An exception in flight sits at the except clause with no banner yet; a
\* caught one has left exactly one banner, the last element, with its text.
C8_Handled ==
    exc # NoExc =>
        /\ pc \in {"except", "idle"}
        /\ pc = "except" => Len(ErrorBanners) = 0
        /\ pc = "idle" =>
              /\ Len(ErrorBanners) = 1
              /\ ui[Len(ui)] = ErrorBanner(exc.msg)

\* From the except clause the run only ends: no genai call, no other statement
C8_NoRetry == pc = "except" => (calls' = calls /\ pc' = "idle")

\* C8: every exception raised in the try block reaches the one handler,
\* which shows exactly one banner with the exception text, and the click
\* makes no further call after the exception.
C8_SingleHandler == []C8_Handled /\ [][C8_NoRetry]_vars

C8_Witness_PollRaised ==
    /\ Done /\ exc.type = "Exception"
    /\ Polls = 2 /\ Len(calls) = 3
    /\ ui = <<ErrorBanner(exc.msg)>>

----------------------------------------------------------------------------
(* C9 *)

CallOrder == <<"configure", "upload_file", "get_file", "generate_content">>

\* The calls made so far are a prefix of configure, upload_file, get_file^n,
\* generate_content with n <= 100, and every poll had its own sleep before it.
C9_Order ==
    /\ Len(calls) <= Len(CallOrder)
    /\ \A i \in 1..Len(calls) :
          /\ calls[i].c = CallOrder[i]
          /\ calls[i].n <= (IF calls[i].c = "get_file" THEN PollLimit ELSE 1)
    /\ nSleeps = Polls + (IF pc = "get_file" THEN 1 ELSE 0)
    /\ pc \in {"sleep", "get_file"} => Count(calls, "generate_content") = 0

\* The counts of the claim as written: exactly one upload, 1..100 polls
C9_Counts ==
    /\ Count(calls, "upload_file") = 1
    /\ Polls \in 1..PollLimit
    /\ Count(calls, "generate_content") <= 1

\* No genai call of this click raised
NoCallRaised == exc.type # "Exception"

----------------------------------------------------------------------------
(* C10 *)

FieldOrder == <<"obstrucao_percentual", "estrutura_colapsada", "padrao_colapso",
                "analise_clinica", "nivel_confianca">>
FieldElement == <<"gauge", "card_estrutura", "card_padrao", "laudo",
                  "caption_confianca">>

ShowsField(e) == \E i \in 1..Len(FieldElement) : e.el = FieldElement[i]
FieldsShown == SelectSeq(ui, ShowsField)

\* Index in FieldOrder of the first field the response lacks (6: none)
FirstMissing ==
    LET M == {i \in 1..Len(FieldOrder) : FieldOrder[i] \notin result.keys}
    IN  IF M = {} THEN Len(FieldOrder) + 1
        ELSE CHOOSE i \in M : \A j \in M : i <= j

\* C10: once analyze_video has returned an object, the success banner is the
\* first element and precedes any field access; the fields appear in the
\* order obstrucao, estrutura, padrao, analise, confianca; a finished run
\* shows exactly the fields before the first missing one, and, if one is
\* missing, the success banner and the KeyError banner together.
C10_RenderOrder ==
    result.kind = "dict" =>
        /\ (ui # <<>> \/ exc # NoExc) => ui[1] = UiEl("success", "")
        /\ Len(FieldsShown) < FirstMissing
        /\ \A i \in 1..Len(FieldsShown) : FieldsShown[i].el = FieldElement[i]
        /\ pc = "idle" =>
              /\ Len(FieldsShown) = FirstMissing - 1
              /\ FirstMissing <= Len(FieldOrder) =>
                    ui[Len(ui)] = ErrorBanner(KeyErrorText(FieldOrder[FirstMissing]))

\* estrutura_colapsada missing: success banner, gauge and error banner together
C10_Witness_PartialOutput ==
    /\ Done /\ result.kind = "dict" /\ FirstMissing = 2
    /\ ui[1] = UiEl("success", "")
    /\ FieldsShown = <<UiEl("gauge", "")>>
    /\ ui[Len(ui)] = ErrorBanner("'estrutura_colapsada'")

====
